---- MODULE Spec2Model ----
(***************************************************************************)
(* Watsky word grids (src/main.py): find_words / update_words.            *)
(*                                                                         *)
(* Python lists are mutable objects that are shared by reference, so the   *)
(* model keeps two heaps: `lists` holds the inner lists (lists of words:   *)
(* index buckets, rows of an assignment) and `grids` holds the outer lists *)
(* (possible_words, possible_words_copy), whose elements are addresses of  *)
(* inner lists.  Addresses are positions in the heap, 0 is "no object".    *)
(* Row and partition indices are 0-based as in the source; a sequence s    *)
(* is read at the 0-based index i as s[i + 1].                             *)
(***************************************************************************)
EXTENDS Integers, Sequences, FiniteSets, TLC

VARIABLES word_pool, part_len, num_parts, lookup_dict, lists, grids,
          possible_words, first_idx, solutions, stack, pc

vars == <<word_pool, part_len, num_parts, lookup_dict, lists, grids,
          possible_words, first_idx, solutions, stack, pc>>

\* ---------------------------------------------------------------- bounds
\* The longest word, and the most characters a pool holds in all (so a pool
\* of words of length n has at most MaxPoolChars \div n words).
MaxWordLen == 4
MaxPoolChars == 12
Chars == {"a", "b"}

\* ------------------------------------------------------------- utilities
Min(a, b) == IF a < b THEN a ELSE b

Range(s) == {s[i] : i \in 1..Len(s)}

SetMax(S) == IF S = {} THEN 0 ELSE CHOOSE m \in S : \A x \in S : x <= m

\* Python slice s[lo:hi] for 0 <= lo <= hi (out-of-range ends are clamped).
Slice(s, lo, hi) == SubSeq(s, Min(lo, Len(s)) + 1, Min(hi, Len(s)))

\* ------------------------------------------------------------- get_part
get_part(word, plen, idx) == Slice(word, plen * idx, plen * (idx + 1))

\* -------------------------------------------------------- make_word_dict
\* One pass of the inner loop body for (word, idx): d[tup].append(word) on
\* the bucket object when the key exists, d[tup] = [word] (a new list)
\* otherwise.  st = [d |-> dictionary, h |-> heap of inner lists].
DictAdd(st, word, plen, idx) ==
    LET tup == <<Slice(word, idx * plen, (idx + 1) * plen), idx>>
    IN  IF tup \in DOMAIN st.d
        THEN [d |-> st.d,
              h |-> [st.h EXCEPT ![st.d[tup]] = Append(@, word)]]
        ELSE [d |-> [k \in DOMAIN st.d \cup {tup} |->
                        IF k = tup THEN Len(st.h) + 1 ELSE st.d[k]],
              h |-> Append(st.h, <<word>>)]

RECURSIVE DictWord(_, _, _, _, _)
DictWord(st, word, plen, nparts, idx) ==
    IF idx >= nparts THEN st
    ELSE DictWord(DictAdd(st, word, plen, idx), word, plen, nparts, idx + 1)

RECURSIVE DictPool(_, _, _, _, _)
DictPool(st, pool, plen, nparts, w) ==
    IF w > Len(pool) THEN st
    ELSE DictPool(DictWord(st, pool[w], plen, nparts, 0),
                  pool, plen, nparts, w + 1)

make_word_dict(h, pool, plen, nparts) ==
    DictPool([d |-> [k \in {} |-> 0], h |-> h], pool, plen, nparts, 1)

\* ------------------------------------------------------------ the heaps
\* The rows of the outer list at address g, as values.
Rows(gs, ls, g) == [i \in 1..Len(gs[g]) |-> ls[gs[g][i]]]

\* Variant without the copy (possible_words_copy = possible_words): the
\* same outer list under a second name.
CopyGridAlias(gs, g) == [grids |-> gs, addr |-> g]

\* list.copy() of an outer list: a new outer list holding the same
\* references (a shallow copy).
CopyGrid(gs, g) == [grids |-> Append(gs, gs[g]), addr |-> Len(gs) + 1]

\* Reference counting: objects no frame, local or dictionary entry refers
\* to are reclaimed.  Allocation is stack-like, so the heaps are cut back
\* to the highest address still referenced.
LiveGrids(stk, pw) == {stk[i].possible_words : i \in 1..Len(stk)} \cup {pw}

Collect(gs, ls, stk, pw, dict) ==
    LET gmax == SetMax(LiveGrids(stk, pw))
        gs2  == SubSeq(gs, 1, gmax)
        refs == {dict[k] : k \in DOMAIN dict}
                  \cup {stk[i].iter_list : i \in 1..Len(stk)}
                  \cup UNION {Range(gs2[g]) : g \in 1..Len(gs2)}
    IN  [grids |-> gs2, lists |-> SubSeq(ls, 1, SetMax(refs))]

\* ------------------------------------------------------------------ Init
WordsOfLen(n) == [1..n -> Chars]

Init ==
    /\ part_len \in 1..MaxWordLen
    /\ num_parts \in 1..MaxWordLen
    /\ part_len * num_parts <= MaxWordLen
    /\ word_pool \in UNION {[1..k -> WordsOfLen(part_len * num_parts)] :
                 k \in 0..(MaxPoolChars \div (part_len * num_parts))}
    /\ lookup_dict = [k \in {} |-> 0]
    /\ lists = <<>>
    /\ grids = <<>>
    /\ possible_words = 0
    /\ first_idx = 0
    /\ solutions = <<>>
    /\ stack = <<>>
    /\ pc = "build"

\* find_words, lines 139-143: the index is built once, before the loop.
MakeWordDict ==
    /\ pc = "build"
    /\ LET st == make_word_dict(lists, word_pool, part_len, num_parts)
       IN  /\ lookup_dict' = st.d
           /\ lists' = st.h
    /\ pc' = "loop"
    /\ UNCHANGED <<word_pool, part_len, num_parts, grids, possible_words,
                   first_idx, solutions, stack>>

\* ---------------------------------------------------- find_words: seeding
\* Variant of the seeding that looks the partition up at the row's own
\* position, tup = (get_part(first, part_len, part), part).
RECURSIVE SeedRowsKeyedByRow(_, _, _, _, _, _, _)
SeedRowsKeyedByRow(gs, g, dict, first, plen, nparts, part) ==
    IF part >= nparts THEN gs
    ELSE LET tup == <<get_part(first, plen, part), part>>
         IN  IF tup \notin DOMAIN dict THEN gs
             ELSE SeedRowsKeyedByRow([gs EXCEPT ![g][part + 1] = dict[tup]],
                                     g, dict, first, plen, nparts, part + 1)

\* Lines 147-150: rows 1..num_parts-1 are bound to the bucket objects of
\* the index (by reference); an absent key leaves the inner loop.
RECURSIVE SeedRows(_, _, _, _, _, _, _)
SeedRows(gs, g, dict, first, plen, nparts, part) ==
    IF part >= nparts THEN gs
    ELSE LET tup == <<get_part(first, plen, part), 0>>
         IN  IF tup \notin DOMAIN dict THEN gs
             ELSE SeedRows([gs EXCEPT ![g][part + 1] = dict[tup]],
                           g, dict, first, plen, nparts, part + 1)

\* A new activation of update_words (its parameters and locals).
Frame(pw, widx) ==
    [possible_words |-> pw, word_idx |-> widx, iter_list |-> 0,
     iter_pos |-> 0, solutions |-> <<>>]

\* Variant that puts the returned solutions first
\* (solutions = solutions_temp + solutions).
ConcatRev(sols, temp) == temp \o sols

\* solutions = solutions + solutions_temp (lines 127 and 153).
Concat(sols, temp) == sols \o temp

\* Lines 144-152, one iteration of the loop over first words up to and
\* including the call of update_words.  The previous iteration's
\* possible_words is released by the rebinding of the name.
Seed ==
    /\ pc = "loop"
    /\ first_idx < Len(word_pool)
    /\ LET first == word_pool[first_idx + 1]
           h0    == Collect(grids, lists, stack, 0, lookup_dict)
           empty == Len(h0.lists) + 1                  \* the one [] of [[]] * n
           pw    == Len(h0.grids) + 1
           ls1   == h0.lists \o << <<>>, <<first>> >>  \* [] and [first]
           gs1   == Append(h0.grids, [i \in 1..num_parts |->
                                        IF i = 1 THEN empty + 1 ELSE empty])
           gs2   == SeedRows(gs1, pw, lookup_dict, first, part_len,
                             num_parts, 1)
       IN  /\ lists' = ls1
           /\ grids' = gs2
           /\ possible_words' = pw
           /\ stack' = <<Frame(pw, 1)>>
    /\ pc' = "call"
    /\ UNCHANGED <<word_pool, part_len, num_parts, lookup_dict, first_idx,
                   solutions>>

\* Line 154: the loop over first words is over, find_words returns.
Finish ==
    /\ pc = "loop"
    /\ first_idx >= Len(word_pool)
    /\ pc' = "done"
    /\ UNCHANGED <<word_pool, part_len, num_parts, lookup_dict, lists, grids,
                   possible_words, first_idx, solutions, stack>>

\* ----------------------------------------------------------- update_words
Top == stack[Len(stack)]

\* Variant that takes the bucket as it is (new_words = temp).
IntersectNoFilter(temp, row) == temp

\* Lines 121-122: the words of the bucket that are in the row, in bucket
\* order.
Intersect(temp, row) == SelectSeq(temp, LAMBDA word : word \in Range(row))

\* Variant of the pruning loop that looks the partition up at the row's
\* own position, tup = (get_part(curr_word, part_len, part), part).
RECURSIVE PruneKeyedByRow(_, _, _, _, _, _, _, _)
PruneKeyedByRow(st, c, dict, curr_word, plen, nparts, widx, part) ==
    IF part >= nparts THEN st
    ELSE LET tup == <<get_part(curr_word, plen, part), part>>
         IN  IF tup \notin DOMAIN dict
             THEN [st EXCEPT !.valid = FALSE]
             ELSE LET temp      == st.lists[dict[tup]]
                      new_words == Intersect(temp,
                                             st.lists[st.grids[c][part + 1]])
                  IN  IF Len(new_words) = 0
                      THEN [st EXCEPT !.valid = FALSE]
                      ELSE PruneKeyedByRow(
                               [valid |-> TRUE,
                                lists |-> Append(st.lists, new_words),
                                grids |-> [st.grids EXCEPT ![c][part + 1] =
                                              Len(st.lists) + 1]],
                               c, dict, curr_word, plen, nparts, widx,
                               part + 1)

\* Lines 116-124: the loop over the partitions right of the diagonal.
\* st = [valid, grids, lists]; c is possible_words_copy.
RECURSIVE Prune(_, _, _, _, _, _, _, _)
Prune(st, c, dict, curr_word, plen, nparts, widx, part) ==
    IF part >= nparts THEN st
    ELSE LET tup == <<get_part(curr_word, plen, part), widx>>
         IN  IF tup \notin DOMAIN dict
             THEN [st EXCEPT !.valid = FALSE]
             ELSE LET temp      == st.lists[dict[tup]]
                      new_words == Intersect(temp,
                                             st.lists[st.grids[c][part + 1]])
                  IN  IF Len(new_words) = 0
                      THEN [st EXCEPT !.valid = FALSE]
                      ELSE Prune([valid |-> TRUE,
                                  lists |-> Append(st.lists, new_words),
                                  grids |-> [st.grids EXCEPT ![c][part + 1] =
                                                Len(st.lists) + 1]],
                                 c, dict, curr_word, plen, nparts, widx,
                                 part + 1)

\* Lines 113-124 for one curr_word: copy the assignment, fix the row,
\* prune the rows below.
Tentative(gs, ls, pw, dict, curr_word, plen, nparts, widx) ==
    LET cp  == CopyGrid(gs, pw)
        ls1 == Append(ls, <<curr_word>>)
        gs1 == [cp.grids EXCEPT ![cp.addr][widx + 1] = Len(ls1)]
        st  == Prune([valid |-> TRUE, lists |-> ls1, grids |-> gs1],
                     cp.addr, dict, curr_word, plen, nparts, widx, widx + 1)
    IN  [valid |-> st.valid, lists |-> st.lists, grids |-> st.grids,
         copy |-> cp.addr]

\* Variant without solutions.copy(): the num_soln entries are one list,
\* which receives every word of the last row.
TerminalSolutionsShared(rows, nparts) ==
    LET num_soln == Len(rows[nparts])
        fixed    == [idx \in 1..(nparts - 1) |-> rows[idx][1]]
    IN  IF num_soln = 0 THEN <<>>
        ELSE [idx \in 1..num_soln |-> fixed \o rows[Len(rows)]]

\* Lines 103-110 on the rows of possible_words (as values): the fixed rows
\* 0..num_parts-2 once, copied num_soln times, each copy completed with one
\* word of the last row.
TerminalSolutions(rows, nparts) ==
    LET num_soln == Len(rows[nparts])
        fixed    == [idx \in 1..(nparts - 1) |-> rows[idx][1]]
    IN  IF num_soln = 0 THEN <<>>
        ELSE [idx \in 1..num_soln |-> Append(fixed, rows[Len(rows)][idx])]

\* The list the for loop of line 112 iterates: the list object is taken
\* once, when the loop starts.
IterList(f) ==
    IF f.iter_list # 0 THEN f.iter_list
    ELSE grids[f.possible_words][f.word_idx + 1]

\* return solutions: the activation ends and the caller adds the returned
\* list to its own (line 127 in update_words, line 153 in find_words).
ReturnTo(sols) ==
    LET rest == SubSeq(stack, 1, Len(stack) - 1)
        stk  == IF rest = <<>> THEN rest
                ELSE [rest EXCEPT ![Len(rest)].solutions = Concat(@, sols)]
        h    == Collect(grids, lists, stk, possible_words, lookup_dict)
    IN  /\ stack' = stk
        /\ grids' = h.grids
        /\ lists' = h.lists
        /\ IF rest = <<>>
           THEN /\ solutions' = Concat(solutions, sols)
                /\ first_idx' = first_idx + 1
                /\ pc' = "loop"
           ELSE UNCHANGED <<solutions, first_idx, pc>>
        /\ UNCHANGED <<word_pool, part_len, num_parts, lookup_dict,
                       possible_words>>

\* An IndexError: line 112 reads possible_words[word_idx] past the end of
\* the assignment, or line 106 reads possible_words[idx][0] of an empty
\* row.
IndexError(f) ==
    IF f.word_idx = num_parts - 1
    THEN /\ Len(lists[grids[f.possible_words][num_parts]]) # 0
         /\ \E idx \in 1..(num_parts - 1) :
               Len(lists[grids[f.possible_words][idx]]) = 0
    ELSE f.word_idx >= Len(grids[f.possible_words])

Fault ==
    /\ pc = "call"
    /\ IndexError(Top)
    /\ pc' = "fault"
    /\ UNCHANGED <<word_pool, part_len, num_parts, lookup_dict, lists, grids,
                   possible_words, first_idx, solutions, stack>>

\* Lines 102-110 and 128: the last row is reached.
Terminal ==
    /\ pc = "call"
    /\ Top.word_idx = num_parts - 1
    /\ ~IndexError(Top)
    /\ ReturnTo(TerminalSolutions(Rows(grids, lists, Top.possible_words),
                                  num_parts))

\* Lines 112-127: one iteration of the loop over the candidates of row
\* word_idx; a valid candidate ends in the recursive call.
Branch ==
    /\ pc = "call"
    /\ Top.word_idx # num_parts - 1
    /\ ~IndexError(Top)
    /\ Top.iter_pos < Len(lists[IterList(Top)])
    /\ LET f    == Top
           it   == IterList(f)
           t    == Tentative(grids, lists, f.possible_words, lookup_dict,
                             lists[it][f.iter_pos + 1], part_len, num_parts,
                             f.word_idx)
           f2   == [f EXCEPT !.iter_list = it, !.iter_pos = @ + 1]
           stk  == [stack EXCEPT ![Len(stack)] = f2]
           stk2 == IF t.valid
                   THEN Append(stk, Frame(t.copy, f.word_idx + 1))
                   ELSE stk
           h    == Collect(t.grids, t.lists, stk2, possible_words,
                           lookup_dict)
       IN  /\ stack' = stk2
           /\ grids' = h.grids
           /\ lists' = h.lists
    /\ UNCHANGED <<word_pool, part_len, num_parts, lookup_dict,
                   possible_words, first_idx, solutions, pc>>

\* Lines 112 and 128: the candidates are exhausted.
Return ==
    /\ pc = "call"
    /\ Top.word_idx # num_parts - 1
    /\ ~IndexError(Top)
    /\ Top.iter_pos >= Len(lists[IterList(Top)])
    /\ ReturnTo(Top.solutions)

Next ==
    \/ MakeWordDict
    \/ Seed
    \/ Finish
    \/ Fault
    \/ Terminal
    \/ Branch
    \/ Return

Spec == Init /\ [][Next]_vars

\* ================================================================ claims
\* The symmetry law on a sequence S of num_parts words.
Symmetric(S) ==
    \A i, j \in 0..(num_parts - 1) :
        get_part(S[i + 1], part_len, j) = get_part(S[j + 1], part_len, i)

\* The sequences of num_parts pool words.
PoolTuples == [1..num_parts -> Range(word_pool)]

\* The tuples of pool positions whose words spell S.
PosTuples(S) ==
    {t \in [1..Len(S) -> 1..Len(word_pool)] :
        \A i \in 1..Len(S) : word_pool[t[i]] = S[i]}

LexLess(a, b) ==
    \E i \in 1..Len(a) : a[i] < b[i] /\ \A j \in 1..(i - 1) : a[j] = b[j]
LexLeq(a, b) == a = b \/ LexLess(a, b)
LexMin(T) == CHOOSE t \in T : \A u \in T : LexLeq(t, u)

Count(seq, x) == Cardinality({k \in 1..Len(seq) : seq[k] = x})

Ended == pc \in {"done", "fault"}

\* The frames of the running search and the rows of a frame.
Frames == {stack[i] : i \in 1..Len(stack)}
FrameRows(f) == Rows(grids, lists, f.possible_words)

\* C1: with num_parts >= 2, every solution find_words has collected (and so
\* every solution it returns) satisfies the symmetry law:
\* get_part(S[i], part_len, j) = get_part(S[j], part_len, i) for all i, j.
C1_SymmetryLaw ==
    num_parts >= 2 =>
        \A k \in 1..Len(solutions) :
            Len(solutions[k]) = num_parts /\ Symmetric(solutions[k])

C1_Witness ==
    /\ pc = "done"
    /\ num_parts >= 3
    /\ \E k \in 1..Len(solutions) :
          Cardinality(Range(solutions[k])) >= 2

\* C2: when find_words has ended, every num_parts-tuple of pool words that
\* satisfies the symmetry law is in the result.
C2_Exhaustive ==
    Ended => \A t \in PoolTuples : Symmetric(t) => t \in Range(solutions)

\* The same for num_parts >= 2, where the search runs to its end.
ExhaustiveFromTwoParts == num_parts >= 2 => C2_Exhaustive

\* C3: every solution is a sequence of exactly num_parts words, each of
\* them a word of the pool.
C3_Soundness ==
    \A k \in 1..Len(solutions) :
        /\ Len(solutions[k]) = num_parts
        /\ Range(solutions[k]) \subseteq Range(word_pool)

C3_Witness ==
    /\ pc = "done"
    /\ Len(solutions) >= 2
    /\ \E k \in 1..(Len(solutions) - 1) :
          /\ SubSeq(solutions[k], 1, num_parts - 1)
               = SubSeq(solutions[k + 1], 1, num_parts - 1)
          /\ solutions[k][num_parts] # solutions[k + 1][num_parts]

\* C4: with num_parts = 1 find_words raises no fault and returns one
\* solution per pool word, the one-element sequence holding that word.
C4_Degenerate ==
    num_parts = 1 =>
        /\ pc # "fault"
        /\ pc = "done" =>
              solutions = [i \in 1..Len(word_pool) |-> <<word_pool[i]>>]

\* Whether the solutions sols[k..] can be given tuples of pool positions
\* of their words that never decrease lexicographically, starting from
\* prev (the least possible tuple is taken each time).
RECURSIVE Monotone(_, _, _)
Monotone(sols, k, prev) ==
    IF k > Len(sols) THEN TRUE
    ELSE LET cand == {t \in PosTuples(sols[k]) : LexLeq(prev, t)}
         IN  cand # {} /\ Monotone(sols, k + 1, LexMin(cand))

PoolDistinct ==
    \A i, j \in 1..Len(word_pool) : word_pool[i] = word_pool[j] => i = j

\* C5: the result is in discovery order: its solutions can be given tuples
\* of pool positions of their words that are in non-decreasing
\* lexicographic order, and for a pool of pairwise distinct words the
\* position tuples are strictly increasing.
C5_DiscoveryOrder ==
    pc = "done" =>
        /\ Monotone(solutions, 1, [i \in 1..num_parts |-> 1])
        /\ PoolDistinct =>
              \A k \in 1..(Len(solutions) - 1) :
                  LexLess(LexMin(PosTuples(solutions[k])),
                          LexMin(PosTuples(solutions[k + 1])))

C5_Witness ==
    /\ pc = "done"
    /\ PoolDistinct
    /\ Len(solutions) >= 3
    /\ \E k \in 1..(Len(solutions) - 1) : solutions[k][1] = solutions[k + 1][1]
    /\ \E k \in 1..(Len(solutions) - 1) : solutions[k][1] # solutions[k + 1][1]

\* C6: when find_words has ended, each num_parts-tuple of pool words is in
\* the result as many times as there are tuples of pool positions spelling
\* it if it is a valid square, and not at all otherwise.
C6_Multiplicity ==
    Ended =>
        \A t \in PoolTuples :
            Count(solutions, t)
              = IF Symmetric(t) THEN Cardinality(PosTuples(t)) ELSE 0

\* The same for num_parts >= 2, where the search runs to its end.
MultiplicityFromTwoParts == num_parts >= 2 => C6_Multiplicity

\* The seeding of the current first word meets a key
\* (get_part(first, part_len, p), 0) that is absent from the index.
SeedAbandoned ==
    /\ first_idx < Len(word_pool)
    /\ \E p \in 1..(num_parts - 1) :
          <<get_part(word_pool[first_idx + 1], part_len, p), 0>>
              \notin DOMAIN lookup_dict

\* C7: update_words is not invoked for a first word whose seeding found a
\* key (get_part(first, part_len, p), 0) absent from the index.
C7_AbandonedNotInvoked == SeedAbandoned => stack = <<>>

\* C8: with num_parts >= 2, in every running call of update_words the rows
\* 0..word_idx-1 hold exactly one word each, and every candidate c of every
\* row j >= word_idx agrees with every fixed row i < word_idx:
\* get_part(c, part_len, i) = get_part(fixed_i, part_len, j).
C8_PruningInvariant ==
    num_parts >= 2 =>
        \A f \in Frames :
            LET rows == FrameRows(f)
            IN  /\ \A i \in 0..(f.word_idx - 1) : Len(rows[i + 1]) = 1
                /\ \A j \in f.word_idx..(num_parts - 1) :
                     \A c \in Range(rows[j + 1]) :
                        \A i \in 0..(f.word_idx - 1) :
                            get_part(c, part_len, i)
                              = get_part(rows[i + 1][1], part_len, j)

C8_Witness ==
    /\ pc = "call"
    /\ Top.word_idx = num_parts - 1
    /\ Top.word_idx >= 2
    /\ Len(FrameRows(Top)[num_parts]) >= 1
    /\ Len(FrameRows(stack[1])[num_parts]) > Len(FrameRows(Top)[num_parts])

\* C9: between a call of update_words and the call nested in it, the rows
\* fixed in the parent are the same, the row the parent fixes holds one of
\* its candidates, and every row below holds a subset of, and no more
\* words than, the parent's candidates.
C9_MonotonicPruning ==
    \A n \in 1..(Len(stack) - 1) :
        LET parent == FrameRows(stack[n])
            child  == FrameRows(stack[n + 1])
            widx   == stack[n].word_idx
        IN  /\ stack[n + 1].word_idx = widx + 1
            /\ \A r \in 0..(widx - 1) : child[r + 1] = parent[r + 1]
            /\ Len(child[widx + 1]) = 1
            /\ child[widx + 1][1] \in Range(parent[widx + 1])
            /\ \A j \in (widx + 1)..(num_parts - 1) :
                  /\ Range(child[j + 1]) \subseteq Range(parent[j + 1])
                  /\ Len(child[j + 1]) <= Len(parent[j + 1])

C9_Witness ==
    /\ Len(stack) >= 3
    /\ \E j \in 1..num_parts :
          /\ Len(FrameRows(stack[3])[j]) < Len(FrameRows(stack[2])[j])
          /\ Len(FrameRows(stack[3])[j]) >= 1

\* The buckets of the index, as values.
IndexContents == [k \in DOMAIN lookup_dict |-> lists[lookup_dict[k]]]

\* C10: no step of the search changes the contents of the assignment of a
\* call that is still running, of the possible_words of find_words, or of
\* a bucket of the index.
C10_NoSharedEffect ==
    [][/\ pc # "build" => IndexContents = IndexContents'
       /\ pc = "call" =>
             /\ \A n \in 1..Min(Len(stack), Len(stack')) :
                   Rows(grids, lists, stack[n].possible_words)
                     = Rows(grids', lists', stack'[n].possible_words)
             /\ Rows(grids, lists, possible_words)
                  = Rows(grids', lists', possible_words')]_vars

C10_Witness ==
    /\ pc = "call"
    /\ Len(stack) >= 2
    /\ Top.iter_pos >= 2
    /\ Top.solutions # <<>>
    /\ \E k \in DOMAIN lookup_dict : lists[lookup_dict[k]] # FrameRows(Top)[num_parts]
====
